---- MODULE Spec2Model ----
(***************************************************************************)
(* MARTE frontend: the animation clock (hooks/useAnimationState.ts), the   *)
(* worldline interpolator (useWorldlineInterpolation, findInterval,        *)
(* interpolateEarthPosition, determinePhaseV1/V2) and the star field's     *)
(* vertex shader (components/kinetic/starfieldShader.ts).                  *)
(*                                                                         *)
(* Numbers.  The code computes on JavaScript numbers and, in the shader,   *)
(* on 32-bit floats.  The model computes on exact rationals <<n, d>>       *)
(* (d > 0, lowest terms); <<0, 0>> stands for NaN, the value JavaScript    *)
(* arithmetic yields once an operand is undefined.  Rounding of floating-  *)
(* point numbers is not modelled.                                          *)
(***************************************************************************)
EXTENDS Integers, Sequences, FiniteSets, TLC

(***************************************************************************)
(* Bounds of the model.                                                    *)
(***************************************************************************)
MaxSteps == 4    \* steps of the wall clock
MaxPlays == 2    \* calls of play()
MaxLen == 3      \* samples of a worldline
MaxEarthLen == 2 \* samples of the reference-body trajectory
MaxArr == 4      \* elements of an array searched by findInterval
MaxVal == 3      \* largest element of such an array

(***************************************************************************)
(* Exact rational arithmetic.                                              *)
(***************************************************************************)
Abs(x) == IF x < 0 THEN -x ELSE x

RECURSIVE GCD(_, _)
GCD(a, b) == IF b = 0 THEN a ELSE GCD(b, a % b)

Norm(n, d) ==
  LET g == GCD(Abs(n), Abs(d))
      s == IF d < 0 THEN -1 ELSE 1
  IN  <<(s * n) \div g, (s * d) \div g>>

R(n, d) == Norm(n, d)
Num(n) == <<n, 1>>
Zero == <<0, 1>>
One == <<1, 1>>
NaN == <<0, 0>>
IsNaN(a) == a[2] = 0

\* (over the least common denominator, to keep numbers small)
RAdd(a, b) ==
  IF IsNaN(a) \/ IsNaN(b) THEN NaN
  ELSE LET g == GCD(a[2], b[2])
       IN  Norm(a[1] * (b[2] \div g) + b[1] * (a[2] \div g),
                (a[2] \div g) * b[2])
RSub(a, b) ==
  IF IsNaN(a) \/ IsNaN(b) THEN NaN
  ELSE LET g == GCD(a[2], b[2])
       IN  Norm(a[1] * (b[2] \div g) - b[1] * (a[2] \div g),
                (a[2] \div g) * b[2])
\* (common factors are cancelled before multiplying, to keep numbers small)
RMul(a, b) ==
  IF IsNaN(a) \/ IsNaN(b) THEN NaN
  ELSE LET g1 == GCD(Abs(a[1]), b[2])
           g2 == GCD(Abs(b[1]), a[2])
       IN  Norm((a[1] \div g1) * (b[1] \div g2), (a[2] \div g2) * (b[2] \div g1))
\* a / b for b # 0 (every division of the modelled code has a nonzero divisor)
RDiv(a, b) == IF IsNaN(a) \/ IsNaN(b) THEN NaN
              ELSE RMul(a, IF b[1] < 0 THEN <<-b[2], -b[1]>> ELSE <<b[2], b[1]>>)
\* comparisons are false as soon as an operand is NaN, as in JavaScript
RLt(a, b) == ~IsNaN(a) /\ ~IsNaN(b) /\ a[1] * b[2] < b[1] * a[2]
RLe(a, b) == ~IsNaN(a) /\ ~IsNaN(b) /\ a[1] * b[2] <= b[1] * a[2]
RGt(a, b) == RLt(b, a)
RGe(a, b) == RLe(b, a)
\* Math.min / Math.max: NaN if either argument is NaN
RMin(a, b) == IF IsNaN(a) \/ IsNaN(b) THEN NaN ELSE IF RLe(a, b) THEN a ELSE b
RMax(a, b) == IF IsNaN(a) \/ IsNaN(b) THEN NaN ELSE IF RLe(a, b) THEN b ELSE a
RAbs(a) == <<Abs(a[1]), a[2]>>

(***************************************************************************)
(* The worldline interpolator: components/ResultsPanel.tsx, lines 66-238.  *)
(* A JavaScript array is a sequence; JavaScript index j is element j + 1.  *)
(***************************************************************************)
Has(arr, j) == (j + 1) \in DOMAIN arr
Idx(arr, j) == arr[j + 1]
\* a number read from an array: undefined (out of range) acts as NaN in
\* the arithmetic that follows
IdxNum(arr, j) == IF Has(arr, j) THEN arr[j + 1] ELSE NaN

\* Math.sqrt on the squares of rationals (the inputs below keep every
\* radicand of a distance a perfect square)
ISqrt(n) == CHOOSE k \in 0..n : k * k = n
RSqrt(q) == IF IsNaN(q) THEN NaN ELSE <<ISqrt(q[1]), ISqrt(q[2])>>

RECURSIVE findIntervalLoop(_, _, _, _)
findIntervalLoop(arr, target, lo, hi) ==
  IF lo < hi
  THEN LET mid == (lo + hi + 1) \div 2
       IN  IF RLe(Idx(arr, mid), target)
           THEN findIntervalLoop(arr, target, mid, hi)
           ELSE findIntervalLoop(arr, target, lo, mid - 1)
  ELSE lo

\* mutant: the two branches of the search are swapped
RECURSIVE findIntervalLoopSwapped(_, _, _, _)
findIntervalLoopSwapped(arr, target, lo, hi) ==
  IF lo < hi
  THEN LET mid == (lo + hi + 1) \div 2
       IN  IF RLe(Idx(arr, mid), target)
           THEN findIntervalLoopSwapped(arr, target, lo, mid - 1)
           ELSE findIntervalLoopSwapped(arr, target, mid, hi)
  ELSE lo
findIntervalSwapped(arr, target) ==
  findIntervalLoopSwapped(arr, target, 0, Len(arr) - 2)
\* mutant: the comparison of the search is strict
RECURSIVE findIntervalLoopStrict(_, _, _, _)
findIntervalLoopStrict(arr, target, lo, hi) ==
  IF lo < hi
  THEN LET mid == (lo + hi + 1) \div 2
       IN  IF RLt(Idx(arr, mid), target)
           THEN findIntervalLoopStrict(arr, target, mid, hi)
           ELSE findIntervalLoopStrict(arr, target, lo, mid - 1)
  ELSE lo
findIntervalStrict(arr, target) ==
  findIntervalLoopStrict(arr, target, 0, Len(arr) - 2)
\* mutant: the search runs up to the last index instead of the last interval
findIntervalToLast(arr, target) == findIntervalLoop(arr, target, 0, Len(arr) - 1)
findInterval(arr, target) == findIntervalLoop(arr, target, 0, Len(arr) - 2)

\* mutant: the endpoints are swapped
lerpSwapped(a, b, t) == RAdd(b, RMul(RSub(a, b), t))
lerp(a, b, t) == RAdd(a, RMul(RSub(b, a), t))

lerpPos(a, b, t) == <<lerp(a[1], b[1], t), lerp(a[2], b[2], t), lerp(a[3], b[3], t)>>

\* mutant: the fraction is computed whatever the interval's duration
intervalFractionUnguarded(coordTime, t0, t1) ==
  RDiv(RSub(coordTime, t0), RSub(t1, t0))
\* lines 121 and 183: t1 > t0 ? (coordTime - t0) / (t1 - t0) : 0
intervalFraction(coordTime, t0, t1) ==
  IF RGt(t1, t0) THEN RDiv(RSub(coordTime, t0), RSub(t1, t0)) ELSE Zero

\* the value of a call that may throw
Returned(v) == [threw |-> FALSE, value |-> v]
Threw == [threw |-> TRUE, value |-> <<Zero, Zero, Zero>>]

\* mutant: no clamping to the first and last sample
interpolateEarthUnclamped(earth, coordTime) ==
  LET times == earth.trajectory_times_years
      positions == earth.trajectory_positions_au
  IN  IF Len(times) = 0 THEN Returned(<<One, Zero, Zero>>)
      ELSE IF Len(times) = 1
      THEN IF Has(positions, 0) THEN Returned(Idx(positions, 0)) ELSE Threw
      ELSE LET i == findInterval(times, coordTime)
               t0 == Idx(times, i)
               t1 == Idx(times, i + 1)
               frac == intervalFraction(coordTime, t0, t1)
           IN  IF Has(positions, i) /\ Has(positions, i + 1)
               THEN Returned(lerpPos(Idx(positions, i), Idx(positions, i + 1), frac))
               ELSE Threw

\* Reading p[0] of an undefined p throws a TypeError (lines 111, 115), and
\* so does lerpPos on an undefined sample (line 122).
interpolateEarthPosition(earth, coordTime) ==
  LET times == earth.trajectory_times_years
      positions == earth.trajectory_positions_au
  IN  IF Len(times) = 0 THEN Returned(<<One, Zero, Zero>>)
      ELSE IF RLe(coordTime, Idx(times, 0))
      THEN IF Has(positions, 0) THEN Returned(Idx(positions, 0)) ELSE Threw
      ELSE IF RGe(coordTime, Idx(times, Len(times) - 1))
      THEN IF Has(positions, Len(positions) - 1)
           THEN Returned(Idx(positions, Len(positions) - 1))
           ELSE Threw
      ELSE LET i == findInterval(times, coordTime)
               t0 == Idx(times, i)
               t1 == Idx(times, i + 1)
               frac == intervalFraction(coordTime, t0, t1)
           IN  IF Has(positions, i) /\ Has(positions, i + 1)
               THEN Returned(lerpPos(Idx(positions, i), Idx(positions, i + 1), frac))
               ELSE Threw

\* mutant: the labels of the two legs are exchanged
determinePhaseV1Swapped(progress) ==
  IF RLt(progress, R(1, 2)) THEN "DECELERATING"
  ELSE IF RGt(progress, R(1, 2)) THEN "ACCELERATING"
  ELSE "TURNAROUND"

determinePhaseV1(progress) ==
  IF RLt(progress, R(1, 2)) THEN "ACCELERATING"
  ELSE IF RGt(progress, R(1, 2)) THEN "DECELERATING"
  ELSE "TURNAROUND"

\* mutant: the boundary comparisons include the boundary
determinePhaseV2Inclusive(coordTime, phaseBoundaries) ==
  IF Len(phaseBoundaries) >= 4
  THEN IF RLe(coordTime, Idx(phaseBoundaries, 0)) THEN "ACCELERATING"
       ELSE IF RLe(coordTime, Idx(phaseBoundaries, 1)) THEN "COASTING"
       ELSE IF RLe(coordTime, Idx(phaseBoundaries, 2)) THEN "TURNAROUND"
       ELSE "DECELERATING"
  ELSE IF Len(phaseBoundaries) >= 2
  THEN IF RLe(coordTime, Idx(phaseBoundaries, 0)) THEN "ACCELERATING"
       ELSE "DECELERATING"
  ELSE "ACCELERATING"

determinePhaseV2(coordTime, phaseBoundaries) ==
  IF Len(phaseBoundaries) >= 4
  THEN IF RLt(coordTime, Idx(phaseBoundaries, 0)) THEN "ACCELERATING"
       ELSE IF RLt(coordTime, Idx(phaseBoundaries, 1)) THEN "COASTING"
       ELSE IF RLt(coordTime, Idx(phaseBoundaries, 2)) THEN "TURNAROUND"
       ELSE "DECELERATING"
  ELSE IF Len(phaseBoundaries) >= 2
  THEN IF RLt(coordTime, Idx(phaseBoundaries, 0)) THEN "ACCELERATING"
       ELSE "DECELERATING"
  ELSE "ACCELERATING"

\* line 198
BETA_MAX == R(9999, 10000)
\* mutant: the upper clamp is dropped
clampBetaNoCeiling(beta) == RMax(Zero, beta)
clampBeta(beta) == RMax(Zero, RMin(beta, BETA_MAX))

\* line 199, gamma = 1 / Math.sqrt(1 - beta * beta), held as its square (gamma
\* is the non-negative root): <<1, 0>> is Infinity (1 - beta^2 = 0) and NaN
\* the root of a negative number.
gammaSqOf(beta) ==
  LET d == RSub(One, RMul(beta, beta))
  IN  IF IsNaN(d) THEN NaN
      ELSE IF d = Zero THEN <<1, 0>>
      ELSE IF RLt(d, Zero) THEN NaN
      ELSE RDiv(One, d)

\* line 209, dmag > 1e-12: every positive rational the model holds has a
\* denominator below 2^31, hence exceeds 1e-12
aboveEpsilon(dmag) == RGt(dmag, Zero)

\* what useWorldlineInterpolation yields: null, a thrown TypeError, or a state
NullResult ==
  [kind |-> "null", coordTime |-> Zero, properTime |-> Zero,
   positionAU |-> <<Zero, Zero, Zero>>, beta |-> Zero, gammaSq |-> One,
   velocityDirection |-> <<One, Zero, Zero>>, phase |-> "NONE",
   distanceToEarth |-> Zero, earthPositionAU |-> <<Zero, Zero, Zero>>,
   i |-> 0, frac |-> Zero]
ThrownResult == [NullResult EXCEPT !.kind = "throw"]
PendingResult == [NullResult EXCEPT !.kind = "pending"]

\* line 173
tooFewSamples(n) == n < 2

\* response = [isNull, solution, worldline, earth], each of the three a
\* record with its own isNull flag
useWorldlineInterpolation(response, progress) ==
  IF response.isNull \/ response.solution.isNull \/ response.worldline.isNull
     \/ response.earth.isNull
  THEN NullResult
  ELSE
  LET worldline == response.worldline
      solution == response.solution
      earth == response.earth
      times == worldline.coord_times_years
      positions == worldline.positions_au
      properTimes == worldline.proper_times_years
      n == Len(times)
  IN
  IF tooFewSamples(n) THEN NullResult
  ELSE
  LET tStart == Idx(times, 0)
      tEnd == Idx(times, n - 1)
      coordTime == lerp(tStart, tEnd, progress)
      i == findInterval(times, coordTime)
      t0 == IdxNum(times, i)
      t1 == IdxNum(times, i + 1)
      frac == intervalFraction(coordTime, t0, t1)
  IN
  \* line 186: lerpPos reads a[0] and b[0]
  IF ~(Has(positions, i) /\ Has(positions, i + 1)) THEN ThrownResult
  ELSE
  LET positionAU == lerpPos(Idx(positions, i), Idx(positions, i + 1), frac)
      properTime == lerp(IdxNum(properTimes, i), IdxNum(properTimes, i + 1), frac)
      rawBeta == IF ~worldline.beta_profile_isNull /\ Len(worldline.beta_profile) = n
                 THEN lerp(Idx(worldline.beta_profile, i),
                           Idx(worldline.beta_profile, i + 1), frac)
                 ELSE solution.beta
      beta == clampBeta(rawBeta)
      gammaSq == gammaSqOf(beta)
      p0 == Idx(positions, i)
      p1 == Idx(positions, i + 1)
      dx == RSub(p1[1], p0[1])
      dy == RSub(p1[2], p0[2])
      dz == RSub(p1[3], p0[3])
      dmag == RSqrt(RAdd(RAdd(RMul(dx, dx), RMul(dy, dy)), RMul(dz, dz)))
      velocityDirection == IF aboveEpsilon(dmag)
                           THEN <<RDiv(dx, dmag), RDiv(dy, dmag), RDiv(dz, dmag)>>
                           ELSE <<One, Zero, Zero>>
      isV2 == solution.trajectory_model = "constant_acceleration"
      phase == IF isV2 /\ ~solution.phase_boundaries_isNull
               THEN determinePhaseV2(coordTime, solution.phase_boundaries_years)
               ELSE determinePhaseV1(progress)
      earthCall == interpolateEarthPosition(earth, coordTime)
  IN
  IF earthCall.threw THEN ThrownResult
  ELSE
  LET earthPositionAU == earthCall.value
      edx == RSub(positionAU[1], earthPositionAU[1])
      edy == RSub(positionAU[2], earthPositionAU[2])
      edz == RSub(positionAU[3], earthPositionAU[3])
      distanceToEarth == RSqrt(RAdd(RAdd(RMul(edx, edx), RMul(edy, edy)),
                                    RMul(edz, edz)))
  IN  [kind |-> "state", coordTime |-> coordTime, properTime |-> properTime,
       positionAU |-> positionAU, beta |-> beta, gammaSq |-> gammaSq,
       velocityDirection |-> velocityDirection, phase |-> phase,
       distanceToEarth |-> distanceToEarth, earthPositionAU |-> earthPositionAU,
       i |-> i, frac |-> frac]

(***************************************************************************)
(* The inputs of the interpolator: solver responses and progress values.   *)
(***************************************************************************)
SeqsUpTo(S, n) == UNION {[1..k -> S] : k \in 0..n}
\* time sequences in non-decreasing order (equal neighbours included)
TimeSeqs(S, n) ==
  {s \in SeqsUpTo(S, n) : \A k \in 1..(Len(s) - 1) : RLe(s[k], s[k + 1])}

WorldTimes == {Num(0), Num(1), Num(2)}
EarthTimes == {R(1, 2), R(3, 2)}
BetaArgs == {R(-1, 2), Zero, R(1, 2), One, R(3, 2)}
ProgressArgs == {Zero, R(1, 4), R(1, 2), One}

\* out and back along the x axis, or at rest
shipPositions(kind, len) ==
  [k \in 1..len |-> IF kind = "outback" THEN <<Num((k - 1) % 2), Zero, Zero>>
                    ELSE <<Zero, Zero, Zero>>]
\* proper time runs at 4/5 of coordinate time
shipProperTimes(times, len) ==
  [k \in 1..len |-> RMul(R(4, 5), RSub(times[k], times[1]))]
\* a velocity profile that starts below 0 and ends above 1
betaProfile(len) == [k \in 1..len |-> RAdd(R(-1, 2), Num(k - 1))]
earthPositions(len) == [k \in 1..len |-> <<Num(k), Zero, Zero>>]

\* a sequence shorter than its time sequence is present but malformed
Shorter(n, by) == IF n >= by THEN n - by ELSE 0

NullWorldline ==
  [isNull |-> TRUE, coord_times_years |-> <<>>, positions_au |-> <<>>,
   proper_times_years |-> <<>>, beta_profile_isNull |-> TRUE,
   beta_profile |-> <<>>]
Worldlines ==
  {NullWorldline} \cup
  { [isNull |-> FALSE, coord_times_years |-> times,
     positions_au |-> shipPositions(pk[1], Shorter(Len(times), pk[2])),
     proper_times_years |-> shipProperTimes(times, Shorter(Len(times), tk)),
     beta_profile_isNull |-> (bp = "absent"),
     beta_profile |-> IF bp = "full" THEN betaProfile(Len(times))
                      ELSE IF bp = "short" /\ Len(times) > 0
                      THEN betaProfile(Len(times) - 1)
                      ELSE <<>>] :
      times \in TimeSeqs(WorldTimes, MaxLen),
      pk \in {<<"outback", 0>>, <<"outback", 1>>, <<"rest", 0>>},
      tk \in 0..1,
      bp \in {"absent", "full", "short"} }

NullSolution ==
  [isNull |-> TRUE, beta |-> Zero, trajectory_model |-> "constant_velocity",
   phase_boundaries_isNull |-> TRUE, phase_boundaries_years |-> <<>>]
Solutions ==
  {NullSolution} \cup
  { [NullSolution EXCEPT !.isNull = FALSE, !.beta = b] : b \in BetaArgs } \cup
  { [isNull |-> FALSE, beta |-> R(1, 2),
     trajectory_model |-> "constant_acceleration",
     phase_boundaries_isNull |-> FALSE,
     phase_boundaries_years |-> <<R(1, 2), Num(1), Num(1), R(3, 2)>>] }

NullEarth ==
  [isNull |-> TRUE, trajectory_times_years |-> <<>>,
   trajectory_positions_au |-> <<>>]
Earths ==
  {NullEarth} \cup
  { [isNull |-> FALSE, trajectory_times_years |-> times,
     trajectory_positions_au |-> earthPositions(Shorter(Len(times), ek))] :
      times \in TimeSeqs(EarthTimes, MaxEarthLen), ek \in 0..1 }

NullResponse ==
  [isNull |-> TRUE, solution |-> NullSolution, worldline |-> NullWorldline,
   earth |-> NullEarth]
Responses ==
  {NullResponse} \cup
  [isNull : {FALSE}, solution : Solutions, worldline : Worldlines, earth : Earths]

(***************************************************************************)
(* Named scenarios, added to the generated responses: worldlines whose     *)
(* proper time is not a fixed fraction of coordinate time, and solutions   *)
(* with every shape of phase-boundary sequence under either model tag.     *)
(***************************************************************************)
\* times [0, 1, 2], positions [(0,0,0), (1,0,0), (0,0,0)], proper times
\* [0, 0.8, 1.5]
TurnaroundWorldline ==
  [isNull |-> FALSE,
   coord_times_years |-> <<Num(0), Num(1), Num(2)>>,
   positions_au |-> << <<Zero, Zero, Zero>>, <<One, Zero, Zero>>,
                       <<Zero, Zero, Zero>> >>,
   proper_times_years |-> <<Zero, R(4, 5), R(3, 2)>>,
   beta_profile_isNull |-> TRUE, beta_profile |-> <<>>]
\* one leg of 7 years, coordinate time 3.5 at half progress
LongWorldline ==
  [isNull |-> FALSE,
   coord_times_years |-> <<Num(0), Num(7)>>,
   positions_au |-> << <<Zero, Zero, Zero>>, <<Num(7), Zero, Zero>> >>,
   proper_times_years |-> <<Zero, R(28, 5)>>,
   beta_profile_isNull |-> TRUE, beta_profile |-> <<>>]
\* four unevenly spaced samples starting after 0, the ship's clock running
\* slow at first and at full rate later
UnevenWorldline ==
  [isNull |-> FALSE,
   coord_times_years |-> <<Num(1), Num(2), Num(4), Num(5)>>,
   positions_au |-> << <<Zero, Zero, Zero>>, <<One, Zero, Zero>>,
                       <<Num(3), Zero, Zero>>, <<Num(3), Zero, Zero>> >>,
   proper_times_years |-> <<Zero, R(1, 2), Num(2), Num(3)>>,
   beta_profile_isNull |-> TRUE, beta_profile |-> <<>>]
ScenarioWorldlines == {TurnaroundWorldline, LongWorldline, UnevenWorldline}

BoundaryArgs ==
  { <<>>, <<Num(1), Num(3)>>, <<Num(1), Num(3), Num(3), Num(5)>>,
    <<Num(1), Num(2), Num(4), Num(5)>> }
ScenarioSolutions ==
  { [isNull |-> FALSE, beta |-> R(1, 2), trajectory_model |-> m,
     phase_boundaries_isNull |-> FALSE, phase_boundaries_years |-> b] :
      m \in {"constant_velocity", "constant_acceleration"},
      b \in BoundaryArgs } \cup
  { [isNull |-> FALSE, beta |-> R(1, 2), trajectory_model |-> m,
     phase_boundaries_isNull |-> TRUE, phase_boundaries_years |-> <<>>] :
      m \in {"constant_velocity", "constant_acceleration"} }
ScenarioEarth ==
  [isNull |-> FALSE, trajectory_times_years |-> <<R(1, 2), R(3, 2)>>,
   trajectory_positions_au |-> earthPositions(2)]
\* three unevenly spaced samples, none on a worldline sample's time but 1
UnevenEarth ==
  [isNull |-> FALSE, trajectory_times_years |-> <<R(1, 2), Num(1), Num(3)>>,
   trajectory_positions_au |-> << <<One, Zero, Zero>>, <<Num(2), Zero, Zero>>,
                                  <<Num(4), Zero, Zero>> >>]
ScenarioResponses ==
  [isNull : {FALSE}, solution : ScenarioSolutions,
   worldline : ScenarioWorldlines, earth : {ScenarioEarth, UnevenEarth}]
ScenarioProgressArgs == {R(k, 8) : k \in 0..8}

(***************************************************************************)
(* The star field's vertex shader: components/kinetic/starfieldShader.ts.  *)
(* Every operation of the shader takes place in the plane spanned by the   *)
(* velocity direction and the star's direction, so a direction is held as  *)
(* the pair <<along, across>> of its components along uVelocityDir and     *)
(* along the unit vector perpendicular to it in that plane.  dir is        *)
(* normalize(position), line 15.  The projection of the aberrated position *)
(* by the camera matrices (lines 60-66) is three.js's and is left out.     *)
(***************************************************************************)
uVelocityDir == <<One, Zero>>

dot(a, b) == RAdd(RMul(a[1], b[1]), RMul(a[2], b[2]))
scale(v, k) == [c \in DOMAIN v |-> RMul(v[c], k)]
plus(a, b) == [c \in DOMAIN a |-> RAdd(a[c], b[c])]
\* mutant: the upper limit is not applied
clampNoCeiling(x, lo, hi) == RMax(x, lo)
\* mutant: min and max are exchanged
clampSwapped(x, lo, hi) == RMax(RMin(x, lo), hi)
\* GLSL clamp(x, lo, hi) = min(max(x, lo), hi)
clamp(x, lo, hi) == RMin(RMax(x, lo), hi)
\* GLSL mix(x, y, a) = x * (1 - a) + y * a
mix(x, y, a) == plus(scale(x, RSub(One, a)), scale(y, a))
\* GLSL sign
sign(x) == IF RGt(x, Zero) THEN One ELSE IF RLt(x, Zero) THEN Num(-1) ELSE Zero

\* the integer square root, by bisection (46340^2 is the largest square
\* below 2^31)
RECURSIVE sqrtBetween(_, _, _)
sqrtBetween(n, lo, hi) ==
  IF lo >= hi THEN lo
  ELSE LET mid == (lo + hi + 1) \div 2
       IN  IF mid * mid <= n THEN sqrtBetween(n, mid, hi)
           ELSE sqrtBetween(n, lo, mid - 1)
\* sqrt(1.0 - c * c), lines 32-33, for |c| <= 1: with c = p / q the radicand
\* is (q - p)(q + p) / q^2, formed in this shape because c * c leaves the
\* integers TLC has for the directions closest to the axis; exact on the
\* inputs below, whose radicands are perfect squares
sqrtOneMinusSquare(c) ==
  LET n == (c[2] - c[1]) * (c[2] + c[1])
  IN  R(sqrtBetween(n, 0, IF n < 46340 THEN n ELSE 46340), c[2])

\* line 20, max(denom, 0.001)
aberrationDenom(denom) == RMax(denom, R(1, 1000))

\* mutant: the perpendicular component is not normalised
perpDirUnnormalised(d, cosTheta, sinTheta) ==
  plus(d, scale(uVelocityDir, RSub(Zero, cosTheta)))
\* line 37
perpDirOf(d, cosTheta, sinTheta) ==
  scale(plus(d, scale(uVelocityDir, RSub(Zero, cosTheta))), RDiv(One, sinTheta))

PendingShade ==
  [kind |-> "pending", cosTheta |-> Zero, cosThetaPrime |-> Zero,
   doppler |-> Zero, beaming |-> Zero, aberratedDir |-> <<Zero, Zero>>,
   baseColor |-> <<Zero, Zero, Zero>>, vColor |-> <<Zero, Zero, Zero>>,
   vAlpha |-> Zero]

\* main(), lines 14-58
starfieldVertexShader(beta, gamma, d, color, brightness) ==
  LET cosTheta == dot(d, uVelocityDir)
      denom == RSub(One, RMul(beta, cosTheta))
      cosThetaPrime ==
        clamp(RDiv(RSub(cosTheta, beta), aberrationDenom(denom)), Num(-1), One)
      doppler ==
        clamp(RDiv(One, RMax(RMul(gamma, denom), R(1, 100))), R(1, 10), Num(10))
      beaming ==
        clamp(RMul(RMul(doppler, doppler), doppler), R(5, 1000), Num(80))
      sinTheta == sqrtOneMinusSquare(cosTheta)
      sinThetaPrime == sqrtOneMinusSquare(cosThetaPrime)
      aberratedDir ==
        IF RGt(sinTheta, R(1, 1000))
        THEN plus(scale(uVelocityDir, cosThetaPrime),
                  scale(perpDirOf(d, cosTheta, sinTheta), sinThetaPrime))
        ELSE scale(uVelocityDir, sign(cosTheta))
      baseColor ==
        IF RGt(doppler, One)
        THEN mix(color, <<R(1, 2), R(3, 5), One>>,
                 RMin(RMul(RSub(doppler, One), R(7, 10)), One))
        ELSE mix(color, <<One, R(3, 10), R(1, 10)>>,
                 RMin(RMul(RSub(One, doppler), R(7, 10)), One))
      vColor ==
        scale(baseColor,
              RMul(beaming, RAdd(R(1, 2), RMul(brightness, R(3, 2)))))
      vAlpha == clamp(RMul(beaming, brightness), R(8, 100), One)
  IN  [kind |-> "shaded", cosTheta |-> cosTheta,
       cosThetaPrime |-> cosThetaPrime, doppler |-> doppler,
       beaming |-> beaming, aberratedDir |-> aberratedDir,
       baseColor |-> baseColor, vColor |-> vColor, vAlpha |-> vAlpha]

(***************************************************************************)
(* The inputs of the shader.  The uniforms uBeta and uGamma come from the  *)
(* interpolated state (RelativisticStarfield.tsx, lines 122-130); the      *)
(* pairs below have gamma = 1 / sqrt(1 - beta^2) exactly, but for the      *)
(* interpolator's ceiling 0.9999, whose gamma 70.71... is given to one     *)
(* decimal.  Star directions are rational points of the unit circle.  At   *)
(* the two highest speeds only the stars on the axis are drawn from, and   *)
(* the directions closest to the axis are paired with beta = 0 only: for   *)
(* the other pairs sqrt and the cube leave the rationals TLC can hold.     *)
(***************************************************************************)
SlowUniforms == { <<Zero, One>>, <<R(3, 5), R(5, 4)>>, <<R(4, 5), R(5, 3)>> }
FastUniforms == { <<R(1012, 1013), R(1013, 45)>>, <<BETA_MAX, R(707, 10)>> }
UnitDirs ==
  { <<One, Zero>>, <<R(4, 5), R(3, 5)>>, <<R(3, 5), R(-4, 5)>>, <<Zero, One>>,
    <<R(-3, 5), R(4, 5)>>, <<R(-4, 5), R(-3, 5)>>, <<Num(-1), Zero>> }
AxisDirs == { <<One, Zero>>, <<Num(-1), Zero>> }
\* sin(theta) just below 0.001 (ahead and astern) and just above it
NearAxisDirs ==
  { <<R(3999999, 4000001), R(4000, 4000001)>>,
    <<R(-3999999, 4000001), R(-4000, 4000001)>>,
    <<R(999999, 1000001), R(2000, 1000001)>> }
StarInputs ==
  (SlowUniforms \X UnitDirs) \cup ({<<Zero, One>>} \X NearAxisDirs)
  \cup (FastUniforms \X AxisDirs)
StarColors == { <<R(3, 5), R(7, 10), One>>, <<One, R(3, 4), R(1, 2)>> }
StarBrightness == { R(2, 5), One }

(***************************************************************************)
(* The animation clock: hooks/useAnimationState.ts.                        *)
(***************************************************************************)
BASE_DURATION_MS == 10000

\* arguments the callers pass, and the steps (ms) of the wall clock
SeekArgs == {R(-1, 2), R(2, 5), R(3, 2)}
SpeedArgs == {Num(-1), Num(1), Num(2)}
ClockSteps == {2500, 5000}

VARIABLES
  progressRef,    \* progressRef.current (the progress state mirrors it)
  playingRef,     \* playingRef.current (the playing state mirrors it)
  speedRef,       \* speedRef.current (the speed state mirrors it)
  lastFrameRef,   \* lastFrameRef.current: time anchor in ms, 0 = none
  rafRef,         \* rafRef.current: handle of the latest requested frame
  rafCallbacks,   \* browser: handles of the tick callbacks awaiting a frame
  rafNext,        \* browser: next handle requestAnimationFrame returns
  frameQueue,     \* browser: callbacks of the frame being delivered
  frameNow,       \* browser: timestamp (ms) of the latest frame
  wallClock,      \* wall-clock time (ms)
  steps,          \* number of steps the wall clock has made
  plays,          \* number of play() calls
  lastOp,         \* history: the latest clock operation and its argument
  seekHist,       \* history: the latest seek(p) while Playing
  pausedSince,    \* history: pause()/reset() called and no play() since
  resetSince,     \* history: reset() called and no play() since
  run,            \* history: play() at progress 0 with only frames since
  response,       \* App: the solver response held
  progressArg,    \* the progress handed to useWorldlineInterpolation
  interpolated,   \* what useWorldlineInterpolation(response, progressArg) gave
  fiArr,          \* findInterval: the array searched
  fiTarget,       \* findInterval: the target
  fiResult,       \* findInterval: the index returned, -1 before the call
  uBeta,          \* shader uniform
  uGamma,         \* shader uniform
  dir,            \* shader: normalize(position) of the star
  aColor,         \* shader attribute
  aBrightness,    \* shader attribute
  shaded,         \* what the vertex shader computed for the star
  camera,         \* CameraController: its refs and the camera's orientation
  mark,           \* history: an instant and the progress observed at it
  app             \* App: request, response and timer state

clockVars == <<progressRef, playingRef, speedRef, lastFrameRef, rafRef,
               rafCallbacks, rafNext, frameQueue, frameNow, wallClock, steps,
               plays>>
histVars == <<lastOp, seekHist, pausedSince, resetSince, run>>
interpVars == <<response, progressArg, interpolated>>
searchVars == <<fiArr, fiTarget, fiResult>>
shaderVars == <<uBeta, uGamma, dir, aColor, aBrightness, shaded>>
sceneVars == <<camera, mark, app>>
pureVars == <<interpVars, searchVars, shaderVars, sceneVars>>
vars == <<clockVars, histVars, pureVars>>

NoSeek == [active |-> FALSE, p |-> Zero, at |-> 0, advanced |-> FALSE]
NoRun == [clean |-> FALSE, anchor |-> 0, advances |-> 0]

\* the clock after useAnimationState() has run once
ClockInit ==
  /\ progressRef = Zero
  /\ playingRef = FALSE
  /\ speedRef = One
  /\ lastFrameRef = 0
  /\ rafRef = 0
  /\ rafCallbacks = {}
  /\ rafNext = 1
  /\ frameQueue = <<>>
  /\ frameNow = 0
  /\ wallClock = 0
  /\ steps = 0
  /\ plays = 0
  /\ lastOp = [op |-> "init", arg |-> Zero]
  /\ seekHist = NoSeek
  /\ pausedSince = FALSE
  /\ resetSince = FALSE
  /\ run = NoRun

\* no search and no star at hand
SearchIdle == fiArr = <<>> /\ fiTarget = Zero /\ fiResult = -1
ShaderIdle ==
  /\ uBeta = Zero /\ uGamma = One /\ dir = uVelocityDir
  /\ aColor = <<One, One, One>> /\ aBrightness = One
  /\ shaded = PendingShade
InterpIdle ==
  response = NullResponse /\ progressArg = Zero /\ interpolated = PendingResult
\* the refs of CameraController as useRef creates them (lines 19-21): both
\* quaternions the identity, not initialized; no frame delivered yet
CameraInit ==
  camera = [initialized |-> FALSE, currentQuaternion |-> Zero,
            targetQuaternion |-> Zero, quaternion |-> Zero, frames |-> 0]
NoMark == [set |-> FALSE, at |-> 0, p |-> Zero, anchor |-> 0]
MarkIdle == mark = NoMark
DEBOUNCE_MS == 300
AUTOPLAY_DELAY_MS == 150
NoTimer == [armed |-> FALSE, due |-> 0]
\* App after its first render and effects (App.tsx lines 26-72): params are
\* the defaults (version 0), the debounce effect has armed its timer at
\* time 0, no request issued, the auto-play effect has found response ===
\* prevResponseRef.current (both null) and done nothing.
AppStart ==
  [params |-> 0,
   debounce |-> [armed |-> TRUE, due |-> DEBOUNCE_MS],
   issued |-> 0,
   inflight |-> {},
   loading |-> FALSE,
   error |-> FALSE,
   prevResponseRef |-> 0,
   autoplay |-> NoTimer,
   cancelled |-> 0]
AppIdle == app = AppStart
SceneIdle == CameraInit /\ MarkIdle /\ AppIdle

Init ==
  /\ ClockInit
  /\ response = NullResponse
  /\ progressArg = Zero
  /\ interpolated = PendingResult
  /\ SearchIdle
  /\ ShaderIdle
  /\ SceneIdle

\* Wall-clock time passes.
Elapse ==
  /\ UNCHANGED pureVars
  /\ frameQueue = <<>>
  /\ steps < MaxSteps
  /\ \E dt \in ClockSteps : wallClock' = wallClock + dt
  /\ steps' = steps + 1
  /\ UNCHANGED <<progressRef, playingRef, speedRef, lastFrameRef, rafRef,
                 rafCallbacks, rafNext, frameQueue, frameNow, plays, histVars>>

\* the callbacks of a frame run in the order they were requested
RECURSIVE Ascending(_)
Ascending(S) ==
  IF S = {} THEN <<>>
  ELSE LET m == CHOOSE x \in S : \A y \in S : x <= y
       IN  <<m>> \o Ascending(S \ {m})

\* The browser delivers an animation frame: every callback requested so far
\* runs with the same timestamp, later than the previous frame's; callbacks
\* requested meanwhile wait for the next frame.
Frame ==
  /\ UNCHANGED pureVars
  /\ frameQueue = <<>>
  /\ rafCallbacks # {}
  /\ wallClock > frameNow
  /\ frameNow' = wallClock
  /\ frameQueue' = Ascending(rafCallbacks)
  /\ rafCallbacks' = {}
  /\ UNCHANGED <<progressRef, playingRef, speedRef, lastFrameRef, rafRef,
                 rafNext, wallClock, steps, plays, histVars>>

\* mutant: the guard on playingRef is dropped
tickRunsAlways == TRUE
\* tick, line 28
tickRuns == playingRef
\* mutant: the sum is not clamped to 1
tickNextUnclamped(dt) ==
  RAdd(progressRef, RMul(RDiv(Num(dt), Num(BASE_DURATION_MS)), speedRef))
\* tick, lines 31-33
tickNext(dt) ==
  RMin(One, RAdd(progressRef, RMul(RDiv(Num(dt), Num(BASE_DURATION_MS)), speedRef)))
\* mutant: playback stops only once progress has passed 1
tickAtEndStrict(next) == RGt(next, One)
\* tick, line 37
tickAtEnd(next) == RGe(next, One)

\* mutant: the anchor taken on the first frame is kept
tickAnchorKept == IF lastFrameRef > 0 THEN lastFrameRef ELSE frameNow
\* tick, line 45
tickAnchor == frameNow

\* tick(now) with now = frameNow, run for the callback at the head of the frame
Tick ==
  /\ UNCHANGED pureVars
  /\ frameQueue # <<>>
  /\ frameQueue' = Tail(frameQueue)
  /\ lastOp' = [op |-> "tick", arg |-> Zero]
  /\ UNCHANGED <<speedRef, frameNow, wallClock, steps, plays, pausedSince,
                 resetSince>>
  /\ IF ~tickRuns
     THEN UNCHANGED <<progressRef, playingRef, lastFrameRef, rafRef,
                      rafCallbacks, rafNext, seekHist, run>>
     ELSE LET advance == lastFrameRef > 0
              next == IF advance THEN tickNext(frameNow - lastFrameRef)
                      ELSE progressRef
          IN  /\ progressRef' = next
              /\ seekHist' = IF advance /\ seekHist.active
                             THEN [seekHist EXCEPT !.advanced = TRUE]
                             ELSE seekHist
              /\ run' = IF ~run.clean THEN run
                        ELSE IF run.anchor = 0
                        THEN [run EXCEPT !.anchor = frameNow]
                        ELSE [run EXCEPT !.advances = IF @ < 2 THEN @ + 1 ELSE @]
              /\ IF advance /\ tickAtEnd(next)
                 THEN /\ playingRef' = FALSE
                      /\ lastFrameRef' = 0
                      /\ UNCHANGED <<rafRef, rafCallbacks, rafNext>>
                 ELSE /\ lastFrameRef' = tickAnchor
                      /\ rafRef' = rafNext
                      /\ rafCallbacks' = rafCallbacks \cup {rafNext}
                      /\ rafNext' = rafNext + 1
                      /\ UNCHANGED playingRef

\* mutant: play() rewinds only once progress has passed 1
playRewindsStrict == RGt(progressRef, One)
\* play, line 50
playRewinds == RGe(progressRef, One)

\* the body of play(), lines 49-58
playCall ==
  /\ plays' = plays + 1
  /\ progressRef' = IF playRewinds THEN Zero ELSE progressRef
  /\ playingRef' = TRUE
  /\ lastFrameRef' = 0
  /\ rafRef' = rafNext
  /\ rafCallbacks' = rafCallbacks \cup {rafNext}
  /\ rafNext' = rafNext + 1
  /\ lastOp' = [op |-> "play", arg |-> progressRef]
  /\ seekHist' = NoSeek
  /\ pausedSince' = FALSE
  /\ resetSince' = FALSE
  /\ run' = [clean |-> progressRef' = Zero, anchor |-> 0, advances |-> 0]
  /\ UNCHANGED <<speedRef, frameQueue, frameNow, wallClock, steps>>

Play ==
  /\ UNCHANGED pureVars
  /\ frameQueue = <<>>
  /\ plays < MaxPlays
  /\ playCall

\* the body of pause(), which reset() calls too
pauseBody ==
  /\ playingRef' = FALSE
  /\ lastFrameRef' = 0
  /\ rafCallbacks' = IF rafRef # 0 THEN rafCallbacks \ {rafRef} ELSE rafCallbacks

Pause ==
  /\ UNCHANGED pureVars
  /\ frameQueue = <<>>
  /\ pauseBody
  /\ lastOp' = [op |-> "pause", arg |-> Zero]
  /\ seekHist' = NoSeek
  /\ pausedSince' = TRUE
  /\ run' = NoRun
  /\ UNCHANGED <<progressRef, speedRef, rafRef, rafNext, frameQueue, frameNow,
                 wallClock, steps, plays, resetSince>>

\* mutant: seek() clamps from above only
seekClampNoFloor(p) == RMin(One, p)
\* seek, line 68
seekClamp(p) == RMax(Zero, RMin(One, p))
\* mutant: seek() keeps the time anchor
seekAnchorKept == lastFrameRef
\* seek, line 71
seekAnchor == 0

Seek ==
  /\ UNCHANGED pureVars
  /\ frameQueue = <<>>
  /\ \E p \in SeekArgs :
       /\ progressRef' = seekClamp(p)
       /\ lastOp' = [op |-> "seek", arg |-> p]
       /\ seekHist' = IF playingRef
                      THEN [active |-> TRUE, p |-> seekClamp(p),
                            at |-> wallClock, advanced |-> FALSE]
                      ELSE NoSeek
  /\ lastFrameRef' = seekAnchor
  /\ run' = NoRun
  /\ UNCHANGED <<playingRef, speedRef, rafRef, rafCallbacks, rafNext,
                 frameQueue, frameNow, wallClock, steps, plays, pausedSince,
                 resetSince>>

\* mutant: setSpeed() also clears the time anchor, as seek() does
SetSpeedClearsAnchor ==
  /\ UNCHANGED pureVars
  /\ frameQueue = <<>>
  /\ \E s \in SpeedArgs :
       /\ speedRef' = s
       /\ lastOp' = [op |-> "setSpeed", arg |-> s]
  /\ lastFrameRef' = 0
  /\ seekHist' = NoSeek
  /\ run' = NoRun
  /\ UNCHANGED <<progressRef, playingRef, rafRef, rafCallbacks,
                 rafNext, frameQueue, frameNow, wallClock, steps, plays,
                 pausedSince, resetSince>>

SetSpeed ==
  /\ UNCHANGED pureVars
  /\ frameQueue = <<>>
  /\ \E s \in SpeedArgs :
       /\ speedRef' = s
       /\ lastOp' = [op |-> "setSpeed", arg |-> s]
  /\ seekHist' = NoSeek
  /\ run' = NoRun
  /\ UNCHANGED <<progressRef, playingRef, lastFrameRef, rafRef, rafCallbacks,
                 rafNext, frameQueue, frameNow, wallClock, steps, plays,
                 pausedSince, resetSince>>

\* mutant: reset() rewinds without pausing
ResetWithoutPause ==
  /\ UNCHANGED pureVars
  /\ frameQueue = <<>>
  /\ progressRef' = Zero
  /\ lastOp' = [op |-> "reset", arg |-> Zero]
  /\ seekHist' = NoSeek
  /\ pausedSince' = TRUE
  /\ resetSince' = TRUE
  /\ run' = NoRun
  /\ UNCHANGED <<playingRef, lastFrameRef, rafCallbacks, speedRef, rafRef,
                 rafNext, frameQueue, frameNow, wallClock, steps, plays>>

\* the body of reset(), lines 79-83
resetCall ==
  /\ pauseBody
  /\ progressRef' = Zero
  /\ lastOp' = [op |-> "reset", arg |-> Zero]
  /\ seekHist' = NoSeek
  /\ pausedSince' = TRUE
  /\ resetSince' = TRUE
  /\ run' = NoRun
  /\ UNCHANGED <<speedRef, rafRef, rafNext, frameQueue, frameNow, wallClock,
                 steps, plays>>

Reset ==
  /\ UNCHANGED pureVars
  /\ frameQueue = <<>>
  /\ resetCall

Next == Elapse \/ Frame \/ Tick \/ Play \/ Pause \/ Seek \/ SetSpeed \/ Reset

Spec == Init /\ [][Next]_vars

(***************************************************************************)
(* The interpolator applied to every response and progress of the bounded  *)
(* input sets.                                                             *)
(***************************************************************************)
InterpInit ==
  /\ ClockInit
  /\ \/ response \in Responses /\ progressArg \in ProgressArgs
     \/ response \in ScenarioResponses /\ progressArg \in ScenarioProgressArgs
  /\ interpolated = PendingResult
  /\ SearchIdle
  /\ ShaderIdle
  /\ SceneIdle

Interpolate ==
  /\ interpolated.kind = "pending"
  /\ interpolated' = useWorldlineInterpolation(response, progressArg)
  /\ UNCHANGED <<clockVars, histVars, response, progressArg, searchVars,
                 shaderVars, sceneVars>>

InterpNext == Interpolate

SpecInterp == InterpInit /\ [][InterpNext]_vars

(***************************************************************************)
(* findInterval applied to every array and target of the bounded sets:     *)
(* arrays in non-decreasing order of up to MaxArr elements from 0..MaxVal, *)
(* targets on the elements, between them and beyond both ends.             *)
(***************************************************************************)
SearchArrays == TimeSeqs({Num(k) : k \in 0..MaxVal}, MaxArr)
SearchTargets == {R(k, 2) : k \in (-1)..(2 * MaxVal + 1)}

SearchInit ==
  /\ ClockInit
  /\ InterpIdle
  /\ ShaderIdle
  /\ fiArr \in SearchArrays
  /\ fiTarget \in SearchTargets
  /\ fiResult = -1
  /\ SceneIdle

Search ==
  /\ fiResult = -1
  /\ fiResult' = findInterval(fiArr, fiTarget)
  /\ UNCHANGED <<clockVars, histVars, interpVars, fiArr, fiTarget, shaderVars,
                 sceneVars>>

SearchNext == Search

SpecSearch == SearchInit /\ [][SearchNext]_vars

(***************************************************************************)
(* The vertex shader applied to every star and pair of uniforms of the     *)
(* input sets.                                                             *)
(***************************************************************************)
ShaderInit ==
  /\ ClockInit
  /\ InterpIdle
  /\ SearchIdle
  /\ \E u \in StarInputs :
       /\ uBeta = u[1][1]
       /\ uGamma = u[1][2]
       /\ dir = u[2]
  /\ aColor \in StarColors
  /\ aBrightness \in StarBrightness
  /\ shaded = PendingShade
  /\ SceneIdle

Shade ==
  /\ shaded.kind = "pending"
  /\ shaded' = starfieldVertexShader(uBeta, uGamma, dir, aColor, aBrightness)
  /\ UNCHANGED <<clockVars, histVars, interpVars, searchVars, uBeta, uGamma,
                 dir, aColor, aBrightness, sceneVars>>

ShaderNext == Shade

SpecShader == ShaderInit /\ [][ShaderNext]_vars

(***************************************************************************)
(* Playback: the clock driving the interpolator.  tick stores the new      *)
(* progress with setProgress (line 36), React then renders App again and   *)
(* the render calls useWorldlineInterpolation(response, animation.progress)*)
(* (App.tsx line 34); several state updates may be batched into one        *)
(* render.  The response is fixed.                                         *)
(***************************************************************************)
PlaybackBoundaries ==
  { <<Num(2), Num(3), Num(4), Num(5)>>, <<Num(1), Num(3), Num(3), Num(5)>>,
    <<Num(2), Num(4)>> }
PlaybackSolutions ==
  { [isNull |-> FALSE, beta |-> R(1, 2),
     trajectory_model |-> "constant_acceleration",
     phase_boundaries_isNull |-> FALSE, phase_boundaries_years |-> b] :
      b \in PlaybackBoundaries } \cup
  { [isNull |-> FALSE, beta |-> R(1, 2), trajectory_model |-> "constant_velocity",
     phase_boundaries_isNull |-> TRUE, phase_boundaries_years |-> <<>>] }
PlaybackResponses ==
  [isNull : {FALSE}, solution : PlaybackSolutions,
   worldline : {TurnaroundWorldline, UnevenWorldline}, earth : {ScenarioEarth}]

PlaybackInit ==
  /\ ClockInit
  /\ response \in PlaybackResponses
  /\ progressArg = Zero
  /\ interpolated = PendingResult
  /\ SearchIdle
  /\ ShaderIdle
  /\ SceneIdle

\* App renders: the first time, or after the progress state has changed
Render ==
  /\ frameQueue = <<>>
  /\ interpolated.kind = "pending" \/ progressArg # progressRef
  /\ progressArg' = progressRef
  /\ interpolated' = useWorldlineInterpolation(response, progressRef)
  /\ UNCHANGED <<clockVars, histVars, response, searchVars, shaderVars,
                 sceneVars>>

PlaybackNext == Elapse \/ Frame \/ Tick \/ Play \/ Render

SpecPlayback == PlaybackInit /\ [][PlaybackNext]_vars

(***************************************************************************)
(* The clock at a fixed speed, set with setSpeed(s) before anything else,  *)
(* under play(), pause() and frames, and an observer that notes the wall   *)
(* clock and the progress at one instant of its choice (between two        *)
(* operations or between two callbacks of a frame).                        *)
(***************************************************************************)
\* the clock after useAnimationState() and one setSpeed(s)
BoundInit ==
  /\ progressRef = Zero
  /\ playingRef = FALSE
  /\ speedRef \in SpeedArgs
  /\ lastFrameRef = 0
  /\ rafRef = 0
  /\ rafCallbacks = {}
  /\ rafNext = 1
  /\ frameQueue = <<>>
  /\ frameNow = 0
  /\ wallClock = 0
  /\ steps = 0
  /\ plays = 0
  /\ lastOp = [op |-> "setSpeed", arg |-> speedRef]
  /\ seekHist = NoSeek
  /\ pausedSince = FALSE
  /\ resetSince = FALSE
  /\ run = NoRun
  /\ InterpIdle
  /\ SearchIdle
  /\ ShaderIdle
  /\ SceneIdle

\* The observer notes the instant: the wall clock, the progress, and the
\* time up to which the clock has counted (its anchor while Playing with an
\* anchor, the instant itself otherwise).
Mark ==
  /\ ~mark.set
  /\ mark' = [set |-> TRUE, at |-> wallClock, p |-> progressRef,
              anchor |-> IF playingRef /\ lastFrameRef > 0
                         THEN lastFrameRef ELSE wallClock]
  /\ UNCHANGED <<clockVars, histVars, interpVars, searchVars, shaderVars,
                 camera, app>>

BoundNext == Elapse \/ Frame \/ Tick \/ Play \/ Pause \/ Mark

SpecBound == BoundInit /\ [][BoundNext]_vars

(***************************************************************************)
(* CameraController (KineticView.tsx).  The velocity directions of the     *)
(* model lie in the x-y plane, so the up vector stays (0,0,1) (the test of *)
(* line 36 is false) and every look-at orientation is the orientation for  *)
(* +x turned about the z axis: an orientation is represented by that yaw   *)
(* angle in degrees, a rational in [0, 360).  Between two such             *)
(* orientations a slerp by t turns the yaw by t times the shorter signed   *)
(* difference.  When the two are exactly opposite (difference 180) the     *)
(* sense of rotation depends on the signs and the rounding of the          *)
(* quaternion components, which are not modelled: both senses are          *)
(* outcomes.                                                               *)
(***************************************************************************)
MaxFrames == 3
SLERP_FRACTION == R(1, 20)
FullTurn == Num(360)
HalfTurn == Num(180)

\* an angle brought into [0, 360)
wrapAngle(a) ==
  IF RLt(a, Zero) THEN RAdd(a, FullTurn)
  ELSE IF RGe(a, FullTurn) THEN RSub(a, FullTurn) ELSE a

\* lines 26-40: the look-at orientation of a velocity direction
lookAtQuaternion(velocityDirection) ==
  CASE velocityDirection = <<One, Zero, Zero>> -> Zero
    [] velocityDirection = <<Zero, One, Zero>> -> Num(90)
    [] velocityDirection = <<Num(-1), Zero, Zero>> -> HalfTurn
    [] velocityDirection = <<Zero, Num(-1), Zero>> -> Num(270)

\* mutant: the orientation is set to the target
slerpSnaps(q, target, t) == {target}
\* line 47: Quaternion.slerp(target, t), the set of its outcomes
slerp(q, target, t) ==
  LET d == wrapAngle(RSub(target, q))
  IN  IF d = HalfTurn
      THEN {wrapAngle(RAdd(q, RMul(t, HalfTurn))),
            wrapAngle(RSub(q, RMul(t, HalfTurn)))}
      ELSE IF RGt(d, HalfTurn)
      THEN {wrapAngle(RAdd(q, RMul(t, RSub(d, FullTurn))))}
      ELSE {wrapAngle(RAdd(q, RMul(t, d)))}

\* a two-leg worldline with a right-angle corner: +x, then +y
CornerWorldline ==
  [isNull |-> FALSE,
   coord_times_years |-> <<Num(0), Num(1), Num(2)>>,
   positions_au |-> << <<Zero, Zero, Zero>>, <<Num(3), Zero, Zero>>,
                       <<Num(3), Num(8), Zero>> >>,
   proper_times_years |-> <<Zero, R(4, 5), R(8, 5)>>,
   beta_profile_isNull |-> TRUE, beta_profile |-> <<>>]
\* a two-leg worldline along -y, then back along +y
ReturnWorldline ==
  [isNull |-> FALSE,
   coord_times_years |-> <<Num(0), Num(1), Num(2)>>,
   positions_au |-> << <<Zero, Zero, Zero>>, <<Zero, Num(-1), Zero>>,
                       <<Zero, Zero, Zero>> >>,
   proper_times_years |-> <<Zero, R(4, 5), R(8, 5)>>,
   beta_profile_isNull |-> TRUE, beta_profile |-> <<>>]
CameraSolution ==
  [isNull |-> FALSE, beta |-> R(1, 2), trajectory_model |-> "constant_velocity",
   phase_boundaries_isNull |-> TRUE, phase_boundaries_years |-> <<>>]
\* the reference body at rest at the origin
CameraEarth ==
  [isNull |-> FALSE, trajectory_times_years |-> <<Zero>>,
   trajectory_positions_au |-> << <<Zero, Zero, Zero>> >>]
CameraResponses ==
  {NullResponse} \cup
  [isNull : {FALSE}, solution : {CameraSolution},
   worldline : {TurnaroundWorldline, CornerWorldline, ReturnWorldline},
   earth : {CameraEarth}]
CameraProgressArgs == {R(1, 4), R(3, 4)}

CameraSpecInit ==
  /\ ClockInit
  /\ InterpIdle
  /\ SearchIdle
  /\ ShaderIdle
  /\ SceneIdle

\* KineticScene is rendered with a new interpolated prop (lines 56-62)
CameraRender ==
  /\ camera.frames < MaxFrames
  /\ \E r \in CameraResponses, p \in CameraProgressArgs :
       /\ response' = r
       /\ progressArg' = p
       /\ interpolated' = useWorldlineInterpolation(r, p)
  /\ UNCHANGED <<clockVars, histVars, searchVars, shaderVars, sceneVars>>

\* lines 23-51: the useFrame callback
useFrame ==
  /\ camera.frames < MaxFrames
  /\ interpolated.kind \in {"null", "state"}
  /\ IF interpolated.kind = "null"
     THEN camera' = [camera EXCEPT !.frames = @ + 1]
     ELSE LET target == lookAtQuaternion(interpolated.velocityDirection)
          IN  IF ~camera.initialized
              THEN camera' = [initialized |-> TRUE,
                              currentQuaternion |-> target,
                              targetQuaternion |-> target,
                              quaternion |-> target,
                              frames |-> camera.frames + 1]
              ELSE \E q \in slerp(camera.currentQuaternion, target,
                                   SLERP_FRACTION) :
                     camera' = [initialized |-> TRUE,
                                currentQuaternion |-> q,
                                targetQuaternion |-> target,
                                quaternion |-> q,
                                frames |-> camera.frames + 1]
  /\ UNCHANGED <<clockVars, histVars, interpVars, searchVars, shaderVars,
                 mark, app>>

CameraNext == CameraRender \/ useFrame

SpecCamera == CameraSpecInit /\ [][CameraNext]_vars

(***************************************************************************)
(* App (App.tsx): parameters, the debounced solve request, the responses   *)
(* and the auto-play effect, with the clock they drive.  A request is      *)
(* numbered by the order of issue; a response carries in id the number of  *)
(* the request it answers (each resp.json() is a fresh object, and the id  *)
(* stands for its identity; 0 is null).  A state update and the effect it   *)
(* triggers are one step: the effect runs in the commit of the render that *)
(* the update causes.  Timers fire at or after their due time.             *)
(***************************************************************************)
MaxParams == 2
AppSteps == {150, 300}
Outcomes == {"solved", "error", "solvedWithError"}

responseId(r) == IF r.isNull THEN 0 ELSE r.id

\* what solveTrajectory resolves to for request k (api.ts; types.ts 50-56)
AppResponse(k, outcome) ==
  IF outcome = "error"
  THEN [isNull |-> FALSE, id |-> k, error |-> TRUE, solution |-> NullSolution,
        worldline |-> NullWorldline, earth |-> NullEarth]
  ELSE [isNull |-> FALSE, id |-> k, error |-> (outcome = "solvedWithError"),
        solution |-> CameraSolution, worldline |-> TurnaroundWorldline,
        earth |-> CameraEarth]

\* mutant: the error field is not looked at
shouldAutoplayIgnoringError(r) == ~r.isNull /\ ~r.solution.isNull
\* line 65: response?.solution && !response.error
shouldAutoplay(r) == ~r.isNull /\ ~r.solution.isNull /\ ~r.error

AppInit ==
  /\ ClockInit
  /\ InterpIdle
  /\ SearchIdle
  /\ ShaderIdle
  /\ SceneIdle

\* wall-clock time passes, in steps that meet the timers' due times
AppElapse ==
  /\ frameQueue = <<>>
  /\ steps < MaxSteps
  /\ \E dt \in AppSteps : wallClock' = wallClock + dt
  /\ steps' = steps + 1
  /\ UNCHANGED <<progressRef, playingRef, speedRef, lastFrameRef, rafRef,
                 rafCallbacks, rafNext, frameQueue, frameNow, plays, histVars,
                 pureVars>>

\* setParams with new values, and the debounce effect of lines 52-58: the
\* cleanup clears the pending timer, the effect arms a new one
SetParams ==
  /\ frameQueue = <<>>
  /\ app.params < MaxParams
  /\ app' = [app EXCEPT !.params = @ + 1,
                        !.debounce = [armed |-> TRUE,
                                      due |-> wallClock + DEBOUNCE_MS]]
  /\ UNCHANGED <<clockVars, histVars, interpVars, searchVars, shaderVars,
                 camera, mark>>

\* the debounce timer fires: doSolve(params) up to its await (lines 37-40)
DebounceFire ==
  /\ frameQueue = <<>>
  /\ app.debounce.armed
  /\ wallClock >= app.debounce.due
  /\ app' = [app EXCEPT !.debounce = NoTimer,
                        !.issued = @ + 1,
                        !.inflight = @ \cup {app.issued + 1},
                        !.loading = TRUE,
                        !.error = FALSE]
  /\ UNCHANGED <<clockVars, histVars, interpVars, searchVars, shaderVars,
                 camera, mark>>

\* solveTrajectory of request k rejects: the catch and finally of doSolve
\* (lines 45-49); the response is not touched
Reject ==
  /\ frameQueue = <<>>
  /\ \E k \in app.inflight :
       app' = [app EXCEPT !.inflight = @ \ {k},
                          !.loading = FALSE,
                          !.error = TRUE]
  /\ UNCHANGED <<clockVars, histVars, interpVars, searchVars, shaderVars,
                 camera, mark>>

\* solveTrajectory of request k resolves: the rest of doSolve (lines 41-44,
\* 48), then the auto-play effect of lines 62-71 for the new response: the
\* previous run's cleanup clears its timer, then reset(), then the timer
\* for play() when the response has a solution and no error
Resolve ==
  /\ frameQueue = <<>>
  /\ \E k \in app.inflight, outcome \in Outcomes :
       LET data == AppResponse(k, outcome)
       IN  /\ response' = data
           /\ app' = [app EXCEPT
                        !.inflight = @ \ {k},
                        !.loading = FALSE,
                        !.error = data.error,
                        !.prevResponseRef = k,
                        !.cancelled = IF app.autoplay.armed THEN @ + 1 ELSE @,
                        !.autoplay = IF shouldAutoplay(data)
                                     THEN [armed |-> TRUE,
                                           due |-> wallClock + AUTOPLAY_DELAY_MS]
                                     ELSE NoTimer]
  /\ resetCall
  /\ UNCHANGED <<progressArg, interpolated, searchVars, shaderVars, camera,
                 mark>>

\* the auto-play timer fires: animation.play() (line 67)
AutoplayFire ==
  /\ frameQueue = <<>>
  /\ app.autoplay.armed
  /\ wallClock >= app.autoplay.due
  /\ app' = [app EXCEPT !.autoplay = NoTimer]
  /\ playCall
  /\ UNCHANGED <<interpVars, searchVars, shaderVars, camera, mark>>

AppNext ==
  \/ AppElapse \/ SetParams \/ DebounceFire \/ Reject \/ Resolve
  \/ AutoplayFire \/ Frame \/ Tick

SpecApp == AppInit /\ [][AppNext]_vars

(***************************************************************************)
(* Properties of the interpolator.                                         *)
(***************************************************************************)
\* a number that is neither NaN nor infinite
Finite(q) == q[2] > 0

Absent(r) ==
  \/ r.isNull \/ r.solution.isNull \/ r.worldline.isNull \/ r.earth.isNull
  \/ Len(r.worldline.coord_times_years) < 2

StrictlyIncreasing(s) == \A k \in 1..(Len(s) - 1) : RLt(s[k], s[k + 1])

\* a response of the shape the solver promises: nothing absent, worldline
\* times strictly increasing, every parallel sequence as long as its times
WellFormed(r) ==
  /\ ~Absent(r)
  /\ StrictlyIncreasing(r.worldline.coord_times_years)
  /\ Len(r.worldline.positions_au) = Len(r.worldline.coord_times_years)
  /\ Len(r.worldline.proper_times_years) = Len(r.worldline.coord_times_years)
  /\ Len(r.earth.trajectory_positions_au) = Len(r.earth.trajectory_times_years)

\* C2: whatever the raw velocity fraction (scalar or interpolated profile;
\* negative, 1, above 1), a returned state has beta in [0, 0.9999] and a
\* finite gamma >= 1 that is 1 / sqrt(1 - beta^2) of that clamped beta.
C2_BetaGammaClamped ==
  interpolated.kind = "state" =>
    LET b == interpolated.beta
        g == interpolated.gammaSq
    IN  /\ RLe(Zero, b)
        /\ RLe(b, R(9999, 10000))
        /\ g[2] > 0
        /\ RGe(g, One)
        /\ RMul(g, RSub(One, RMul(b, b))) = One

\* C2 witness: a state computed from a raw scalar beta above 1.
C2_Witness ==
  /\ interpolated.kind = "state"
  /\ response.worldline.beta_profile_isNull
  /\ RGt(response.solution.beta, One)
  /\ interpolated.beta = R(9999, 10000)

C4_NullIffAbsent ==
  interpolated.kind # "pending" =>
    IF Absent(response) THEN interpolated.kind = "null"
    ELSE interpolated.kind = "state"

\* C5: data that is present but malformed never makes the interpolator
\* raise: every input yields a state or null.
C5_NeverThrows == interpolated.kind # "throw"

\* the proper time of every sample is at most the coordinate time elapsed
\* since the first sample
ProperTimesDilated(w) ==
  \A k \in 1..Len(w.coord_times_years) :
    RLe(w.proper_times_years[k],
        RSub(w.coord_times_years[k], w.coord_times_years[1]))

\* C14: for a well-formed worldline whose proper time at each sample does not
\* exceed the coordinate time elapsed since the first sample, and progress
\* in [0, 1], the interpolated proper time is at most the interpolated
\* coordinate time minus the first sample's coordinate time.
C14_ProperTimeDilated ==
  ( /\ interpolated.kind # "pending"
    /\ WellFormed(response)
    /\ ProperTimesDilated(response.worldline)
    /\ RLe(Zero, progressArg) /\ RLe(progressArg, One) )
  => /\ interpolated.kind = "state"
     /\ RLe(interpolated.properTime,
            RSub(interpolated.coordTime,
                 response.worldline.coord_times_years[1]))

\* C14 witness: a point inside the third of four unevenly spaced samples,
\* where the ship's clock has run 1.625 years of the 2.5 elapsed.
C14_Witness ==
  /\ interpolated.kind = "state"
  /\ response.worldline = UnevenWorldline
  /\ progressArg = R(5, 8)
  /\ interpolated.properTime = R(13, 8)
  /\ interpolated.coordTime = R(7, 2)

\* a * (1 - f) + b * f
Blend(a, b, f) == RAdd(RMul(a, RSub(One, f)), RMul(b, f))

\* C16: for a well-formed worldline the state's coordinate time is
\* t = times[0] * (1 - progress) + times[last] * progress, its interval i
\* brackets t, its fraction is f = (t - times[i]) / (times[i+1] - times[i]),
\* and position and proper time are both the blend of samples i and i + 1
\* with that one f; for times [0,1,2], positions [(0,0,0),(1,0,0),(0,0,0)],
\* proper times [0,0.8,1.5] and progress 0.25 the state has coordinate time
\* 0.5, position (0.5,0,0), proper time 0.4 and (3-leg model) phase
\* ACCELERATING.
C16_Lockstep ==
  (interpolated.kind # "pending" /\ WellFormed(response)) =>
    LET w == response.worldline
        times == w.coord_times_years
        t == Blend(times[1], times[Len(times)], progressArg)
        i == interpolated.i
        f == RDiv(RSub(t, times[i + 1]), RSub(times[i + 2], times[i + 1]))
    IN  /\ interpolated.kind = "state"
        /\ interpolated.coordTime = t
        /\ i \in 0..(Len(times) - 2)
        /\ RLe(times[i + 1], t) /\ RLe(t, times[i + 2])
        /\ interpolated.frac = f
        /\ \A c \in 1..3 :
             interpolated.positionAU[c] =
               Blend(w.positions_au[i + 1][c], w.positions_au[i + 2][c], f)
        /\ interpolated.properTime =
             Blend(w.proper_times_years[i + 1], w.proper_times_years[i + 2], f)
        /\ (w = TurnaroundWorldline /\ progressArg = R(1, 4)) =>
             /\ interpolated.coordTime = R(1, 2)
             /\ interpolated.positionAU = <<R(1, 2), Zero, Zero>>
             /\ interpolated.properTime = R(2, 5)
             /\ response.solution.phase_boundaries_isNull =>
                  interpolated.phase = "ACCELERATING"

\* C16 witness: the scenario's state, a quarter of the way through.
C16_Witness ==
  /\ interpolated.kind = "state"
  /\ response.worldline = TurnaroundWorldline
  /\ response.solution.phase_boundaries_isNull
  /\ progressArg = R(1, 4)
  /\ interpolated.i = 0
  /\ interpolated.frac = R(1, 2)
  /\ interpolated.positionAU = <<R(1, 2), Zero, Zero>>
  /\ interpolated.properTime = R(2, 5)
  /\ interpolated.phase = "ACCELERATING"

\* C24: for a reference trajectory with a position for each of its times,
\* the reference-body position of the state is the first sample's at or
\* before the trajectory's first time, the last sample's at or after its
\* last time, and in between the blend of the two samples whose times
\* bracket t, whatever the worldline's own sampling.
C24_EarthClamped ==
  ( /\ interpolated.kind # "pending"
    /\ WellFormed(response)
    /\ Len(response.earth.trajectory_times_years) >= 1 )
  => LET et == response.earth.trajectory_times_years
         ep == response.earth.trajectory_positions_au
         n == Len(et)
         t == interpolated.coordTime
         e == interpolated.earthPositionAU
     IN  /\ interpolated.kind = "state"
         /\ IF RLe(t, et[1]) THEN e = ep[1]
            ELSE IF RGe(t, et[n]) THEN e = ep[n]
            ELSE \E i \in 1..(n - 1) :
                   /\ RLe(et[i], t) /\ RLt(t, et[i + 1])
                   /\ \A c \in 1..3 :
                        e[c] = Blend(ep[i][c], ep[i + 1][c],
                                     RDiv(RSub(t, et[i]), RSub(et[i + 1], et[i])))

\* C24 witness: coordinate time 1.75 inside the second interval [1, 3] of a
\* three-sample reference trajectory, under a two-sample worldline.
C24_Witness ==
  /\ interpolated.kind = "state"
  /\ response.earth = UnevenEarth
  /\ response.worldline = LongWorldline
  /\ interpolated.coordTime = R(7, 4)
  /\ interpolated.earthPositionAU = <<R(11, 4), Zero, Zero>>

\* C25: when the interval the state was taken from has zero duration
\* (times[i+1] <= times[i]) its fraction is 0 and its position and proper
\* time are those of sample i; otherwise the fraction is
\* (t - times[i]) / (times[i+1] - times[i]); no component of the state is
\* the result of a division by zero.
C25_ZeroDurationInterval ==
  ( /\ interpolated.kind = "state"
    /\ Len(response.worldline.positions_au) =
         Len(response.worldline.coord_times_years)
    /\ Len(response.worldline.proper_times_years) =
         Len(response.worldline.coord_times_years) )
  => LET w == response.worldline
         i == interpolated.i
         t0 == w.coord_times_years[i + 1]
         t1 == w.coord_times_years[i + 2]
     IN  /\ IF RLe(t1, t0)
            THEN /\ interpolated.frac = Zero
                 /\ interpolated.positionAU = w.positions_au[i + 1]
                 /\ interpolated.properTime = w.proper_times_years[i + 1]
            ELSE interpolated.frac =
                   RDiv(RSub(interpolated.coordTime, t0), RSub(t1, t0))
         /\ Finite(interpolated.properTime)
         /\ \A c \in 1..3 : /\ Finite(interpolated.positionAU[c])
                             /\ Finite(interpolated.earthPositionAU[c])

\* C25 witness: times [0, 1, 1] at progress 1, the state taken from the
\* interval between the two equal timestamps.
C25_Witness ==
  /\ interpolated.kind = "state"
  /\ response.worldline.coord_times_years = <<Num(0), Num(1), Num(1)>>
  /\ Len(response.worldline.positions_au) = 3
  /\ Len(response.worldline.proper_times_years) = 3
  /\ progressArg = One
  /\ interpolated.i = 1
  /\ interpolated.frac = Zero
  /\ interpolated.positionAU = response.worldline.positions_au[2]

(***************************************************************************)
(* Properties of the clock at a fixed speed.                               *)
(***************************************************************************)
\* x ms of wall-clock time at speed s, as progress
progressOf(x, s) == RMul(RDiv(Num(x), Num(BASE_DURATION_MS)), s)

\* C28 (as stated): at a positive speed, from an instant noted to any later
\* one, the increase of progress is at most the wall-clock time elapsed
\* between the two times speed / BASE_DURATION_MS.
C28_RateBound ==
  (mark.set /\ RGt(speedRef, Zero)) =>
    RLe(RSub(progressRef, mark.p), progressOf(wallClock - mark.at, speedRef))

\* C28 (amended): from an instant noted to any later one, the increase of
\* progress is at most the wall-clock time elapsed since the clock's time
\* anchor at the first instant (the first instant itself when the clock was
\* not Playing or had no anchor), times speed / BASE_DURATION_MS, and is
\* never positive at a negative speed.
C28_RateBoundFromAnchor ==
  mark.set =>
    RLe(RSub(progressRef, mark.p),
        progressOf(wallClock - mark.anchor, RMax(speedRef, Zero)))

\* C28 witness: play() was called twice, so two callbacks run per frame;
\* noted right after a frame at 2500 ms, the progress has grown by exactly
\* 5000 ms worth at speed 1 when the wall clock stands at 7500 ms.
C28_Witness ==
  /\ mark.set
  /\ plays = 2
  /\ speedRef = One
  /\ mark.at = 2500 /\ mark.anchor = 2500
  /\ wallClock = 7500
  /\ Len(frameQueue) = 0
  /\ Cardinality(rafCallbacks) = 2
  /\ RSub(progressRef, mark.p) = R(1, 2)

(***************************************************************************)
(* Properties of playback.                                                 *)
(***************************************************************************)
\* the place of a phase in the order of a mission
phaseRank(phase) ==
  CASE phase = "ACCELERATING" -> 0
    [] phase = "COASTING" -> 1
    [] phase = "TURNAROUND" -> 2
    [] phase = "DECELERATING" -> 3

\* C27: from one render to the next over the same response, when the
\* progress rendered has not decreased (no seek back, reset or replay
\* between them), the phase reported is the same or a later one in the
\* order ACCELERATING, COASTING, TURNAROUND, DECELERATING.
C27_PhaseNeverBackwards ==
  [][( /\ interpolated.kind = "state"
       /\ interpolated'.kind = "state"
       /\ response' = response
       /\ RLe(progressArg, progressArg') )
     => phaseRank(interpolated'.phase) >= phaseRank(interpolated.phase)]_vars

\* C27 witness: playback of the four-sample worldline with boundaries
\* [2, 3, 4, 5] has been rendered at progress 3/4 (coordinate time 4), in
\* the last phase.
C27_Witness ==
  /\ playingRef
  /\ response.worldline = UnevenWorldline
  /\ response.solution.phase_boundaries_years = <<Num(2), Num(3), Num(4), Num(5)>>
  /\ progressArg = R(3, 4)
  /\ interpolated.kind = "state"
  /\ interpolated.coordTime = Num(4)
  /\ interpolated.phase = "DECELERATING"

(***************************************************************************)
(* Properties of App.                                                      *)
(***************************************************************************)
IsNewResponseStep == response' # response

\* C29: the step in which a new response replaces the current one leaves
\* the clock not playing at progress 0, with the auto-play timer armed for
\* 150 ms later exactly when the response has a solution and no error;
\* play() is invoked from App only by that timer, no sooner than due, for
\* the response then held; a pending timer goes away only by firing or by
\* the arrival of another response; and while the response held has an
\* error or no solution the clock stays not playing at progress 0.
C29_AutoplayAfterReset ==
  /\ [][IsNewResponseStep =>
          /\ ~playingRef'
          /\ progressRef' = Zero
          /\ app'.autoplay =
               IF ~response'.solution.isNull /\ ~response'.error
               THEN [armed |-> TRUE, due |-> wallClock + 150]
               ELSE NoTimer]_vars
  /\ [][plays' = plays + 1 =>
          /\ app.autoplay.armed
          /\ ~app'.autoplay.armed
          /\ wallClock >= app.autoplay.due
          /\ response' = response
          /\ ~response.isNull /\ ~response.solution.isNull /\ ~response.error
          /\ app.prevResponseRef = response.id
          /\ playingRef']_vars
  /\ [][(app.autoplay.armed /\ app'.autoplay # app.autoplay) =>
          (plays' = plays + 1 \/ IsNewResponseStep)]_vars
  /\ []( (~response.isNull /\ (response.solution.isNull \/ response.error))
          => (~playingRef /\ progressRef = Zero /\ ~app.autoplay.armed) )

\* C29 witness: a first response armed the timer, a second one arrived
\* before it fired and cancelled it, and the second one's own timer has
\* fired: the clock is playing the second response.
C29_Witness ==
  /\ app.cancelled = 1
  /\ plays = 1
  /\ playingRef
  /\ response.id = 2
  /\ ~app.autoplay.armed

\* C30: a response never replaces the response of a request issued later
\* than its own.
C30_NewestResponseKept ==
  [][IsNewResponseStep => responseId(response') > responseId(response)]_vars

(***************************************************************************)
(* Properties of the camera controller.                                    *)
(***************************************************************************)
\* the angle between two orientations, in [0, 180]
angleBetween(a, b) ==
  LET d == wrapAngle(RSub(b, a))
  IN  IF RGt(d, HalfTurn) THEN RSub(FullTurn, d) ELSE d

IsUseFrameStep == camera'.frames = camera.frames + 1

\* C26: the frame callback sets the current orientation to the target on
\* the first frame that has an interpolated state and marks the controller
\* initialized; on every later frame with a state the current orientation
\* ends at 95% of its former angle from the target (a 5% move toward it,
\* not a jump onto it); a frame without a state leaves the orientations
\* and the flag as they were; the flag never returns to false.
C26_FirstFrameThenSlerp ==
  /\ [][IsUseFrameStep =>
          IF interpolated.kind # "state"
          THEN camera' = [camera EXCEPT !.frames = @ + 1]
          ELSE /\ camera'.initialized
               /\ camera'.targetQuaternion =
                    lookAtQuaternion(interpolated.velocityDirection)
               /\ camera'.quaternion = camera'.currentQuaternion
               /\ IF ~camera.initialized
                  THEN camera'.currentQuaternion = camera'.targetQuaternion
                  ELSE angleBetween(camera'.currentQuaternion,
                                    camera'.targetQuaternion)
                       = RMul(R(19, 20),
                              angleBetween(camera.currentQuaternion,
                                           camera'.targetQuaternion))]_vars
  /\ [][camera.initialized => camera'.initialized]_vars

\* C26 witness: the third frame, the controller initialized on an earlier
\* frame heading -x (180 degrees) and the state now heading +y (90
\* degrees): the current orientation is at 175.5 degrees, not on the target.
C26_Witness ==
  /\ camera.initialized
  /\ camera.frames = 3
  /\ camera.targetQuaternion = Num(90)
  /\ camera.currentQuaternion = R(351, 2)
  /\ camera.quaternion = R(351, 2)

\* the phase of the 3-leg model
ThreeLegPhase(progress) ==
  IF RLt(progress, R(1, 2)) THEN "ACCELERATING"
  ELSE IF progress = R(1, 2) THEN "TURNAROUND"
  ELSE "DECELERATING"

\* C17: for a solution whose phase-boundary sequence is absent or of length
\* 0, the phase of the state depends on progress alone: ACCELERATING below
\* 0.5, TURNAROUND at 0.5, DECELERATING above 0.5.
C17_ThreeLegPhase ==
  ( /\ interpolated.kind = "state"
    /\ \/ response.solution.phase_boundaries_isNull
       \/ Len(response.solution.phase_boundaries_years) = 0 )
  => interpolated.phase = ThreeLegPhase(progressArg)

\* C18: under the constant-acceleration tag the phase depends only on the
\* coordinate time t and the ordered boundaries: with four boundaries
\* [b0,b1,b2,b3], ACCELERATING for t < b0, COASTING for b0 <= t < b1,
\* TURNAROUND for b1 <= t < b2, DECELERATING from b2 on (so for [1,3,3,5] at
\* t = 3.5, and TURNAROUND is never reported when b1 = b2); with two
\* boundaries, ACCELERATING for t < b0 and DECELERATING otherwise.
C18_MultiPhase ==
  ( /\ interpolated.kind = "state"
    /\ response.solution.trajectory_model = "constant_acceleration"
    /\ ~response.solution.phase_boundaries_isNull
    /\ \A k \in 1..(Len(response.solution.phase_boundaries_years) - 1) :
         RLe(response.solution.phase_boundaries_years[k],
             response.solution.phase_boundaries_years[k + 1]) )
  => LET b == response.solution.phase_boundaries_years
         t == interpolated.coordTime
         phase == interpolated.phase
     IN  /\ Len(b) = 4 =>
              /\ RLt(t, b[1]) => phase = "ACCELERATING"
              /\ (RLe(b[1], t) /\ RLt(t, b[2])) => phase = "COASTING"
              /\ (RLe(b[2], t) /\ RLt(t, b[3])) => phase = "TURNAROUND"
              /\ RLe(b[3], t) => phase = "DECELERATING"
              /\ b[2] = b[3] => phase # "TURNAROUND"
         /\ Len(b) = 2 =>
              /\ RLt(t, b[1]) => phase = "ACCELERATING"
              /\ RLe(b[1], t) => phase = "DECELERATING"

\* C18 witness: coordinate time 3.5 against the boundaries [1,3,3,5].
C18_Witness ==
  /\ interpolated.kind = "state"
  /\ response.solution.trajectory_model = "constant_acceleration"
  /\ ~response.solution.phase_boundaries_isNull
  /\ response.solution.phase_boundaries_years = <<Num(1), Num(3), Num(3), Num(5)>>
  /\ interpolated.coordTime = R(7, 2)
  /\ interpolated.phase = "DECELERATING"

(***************************************************************************)
(* Properties of findInterval.                                             *)
(***************************************************************************)
\* the linear scan: the first interval whose upper end lies above t, the
\* last interval if there is none
RECURSIVE linearScanFrom(_, _, _)
linearScanFrom(arr, t, i) ==
  IF i >= Len(arr) - 2 THEN Len(arr) - 2
  ELSE IF RLt(t, arr[i + 2]) THEN i
  ELSE linearScanFrom(arr, t, i + 1)

\* C15: for a strictly increasing array of at least 2 elements and a target
\* t with arr[0] <= t <= arr[last], findInterval returns the index a linear
\* scan returns: the i with arr[i] <= t < arr[i+1], and n - 2 when t is the
\* last element.
C15_SearchAgreesWithScan ==
  ( /\ fiResult # -1
    /\ Len(fiArr) >= 2
    /\ StrictlyIncreasing(fiArr)
    /\ RLe(fiArr[1], fiTarget)
    /\ RLe(fiTarget, fiArr[Len(fiArr)]) )
  => /\ fiResult = linearScanFrom(fiArr, fiTarget, 0)
     /\ fiResult \in 0..(Len(fiArr) - 2)
     /\ RLe(fiArr[fiResult + 1], fiTarget)
     /\ \/ RLt(fiTarget, fiArr[fiResult + 2])
        \/ fiTarget = fiArr[Len(fiArr)] /\ fiResult = Len(fiArr) - 2

\* C15 witness: a target strictly inside the last of three intervals.
C15_Witness ==
  /\ Len(fiArr) = 4
  /\ StrictlyIncreasing(fiArr)
  /\ RLt(fiArr[3], fiTarget)
  /\ RLt(fiTarget, fiArr[4])
  /\ fiResult = 2

(***************************************************************************)
(* Properties of the vertex shader.                                        *)
(***************************************************************************)
\* sin(theta) of the star: the size of its component across the velocity
sinOf(d) == RAbs(d[2])

\* C19: at beta = 0 and gamma = 1 the shader leaves every star as it is: the
\* aberrated direction is the star's direction, the Doppler factor is
\* exactly 1, the beaming factor is 1 and the colour is the star's own.
C19_IdentityAtRest ==
  (shaded.kind = "shaded" /\ uBeta = Zero /\ uGamma = One) =>
    /\ shaded.aberratedDir = dir
    /\ shaded.doppler = One
    /\ shaded.beaming = One
    /\ shaded.baseColor = aColor

\* C19, amended: at beta = 0 and gamma = 1 the Doppler factor is exactly 1,
\* the beaming factor is 1, the colour is the star's own and the aberrated
\* cosine is the star's cosine; the aberrated direction is the star's
\* direction when sin(theta) > 0.001 or the star lies on the velocity axis,
\* and for 0 < sin(theta) <= 0.001 it is + or - the velocity direction (the
\* sign that of cos(theta)), each component within 0.001 of the star's.
C19_IdentityAtRestOffAxis ==
  (shaded.kind = "shaded" /\ uBeta = Zero /\ uGamma = One) =>
    /\ shaded.doppler = One
    /\ shaded.beaming = One
    /\ shaded.baseColor = aColor
    /\ shaded.cosThetaPrime = dir[1]
    /\ (RGt(sinOf(dir), R(1, 1000)) \/ sinOf(dir) = Zero) =>
         shaded.aberratedDir = dir
    /\ (RGt(sinOf(dir), Zero) /\ RLe(sinOf(dir), R(1, 1000))) =>
         /\ shaded.aberratedDir =
              <<IF RGt(dir[1], Zero) THEN One ELSE Num(-1), Zero>>
         /\ \A c \in 1..2 :
              RLe(RAbs(RSub(shaded.aberratedDir[c], dir[c])), R(1, 1000))

\* C19 witness: a star at rest whose sin(theta) is 0.002, returned unmoved.
C19_Witness ==
  /\ shaded.kind = "shaded"
  /\ uBeta = Zero
  /\ dir = <<R(999999, 1000001), R(2000, 1000001)>>
  /\ shaded.aberratedDir = dir
  /\ shaded.doppler = One

\* C20: for beta in [0, 0.9999] and every star direction the aberrated
\* cosine is (cos(theta) - beta) / (1 - beta * cos(theta)), clamped to
\* [-1, 1].
C20_AberratedCosine ==
  (shaded.kind = "shaded" /\ RLe(Zero, uBeta) /\ RLe(uBeta, R(9999, 10000))) =>
    LET cosTheta == dir[1]
        q == RDiv(RSub(cosTheta, uBeta), RSub(One, RMul(uBeta, cosTheta)))
    IN  shaded.cosThetaPrime =
          IF RLt(q, Num(-1)) THEN Num(-1) ELSE IF RGt(q, One) THEN One ELSE q

\* C21: for beta > 0 the aberrated cosine of every star is at least its
\* original cosine: the apparent direction moves toward the direction of
\* motion.
C21_AberrationForward ==
  (shaded.kind = "shaded" /\ RGt(uBeta, Zero)) =>
    RGe(shaded.cosThetaPrime, shaded.cosTheta)

\* C22: for beta in [0, 0.9999] with its gamma and every star direction the
\* Doppler factor lies in [0.1, 10], the beaming factor in [0.005, 80], and
\* every output of the shader is a finite number.
C22_DopplerBeamingBounded ==
  (shaded.kind = "shaded" /\ RLe(Zero, uBeta) /\ RLe(uBeta, R(9999, 10000))) =>
    /\ Finite(shaded.doppler)
    /\ RLe(R(1, 10), shaded.doppler) /\ RLe(shaded.doppler, Num(10))
    /\ Finite(shaded.beaming)
    /\ RLe(R(5, 1000), shaded.beaming) /\ RLe(shaded.beaming, Num(80))
    /\ Finite(shaded.cosThetaPrime)
    /\ Finite(shaded.vAlpha)
    /\ \A c \in 1..2 : Finite(shaded.aberratedDir[c])
    /\ \A c \in 1..3 : Finite(shaded.baseColor[c]) /\ Finite(shaded.vColor[c])

\* C22 witness: at beta = 0.9999 a star dead ahead has both factors at
\* their upper limits.
C22_Witness ==
  /\ shaded.kind = "shaded"
  /\ uBeta = R(9999, 10000)
  /\ dir = <<One, Zero>>
  /\ shaded.doppler = Num(10)
  /\ shaded.beaming = Num(80)

IsTickStep == frameQueue # <<>> /\ frameQueue' = Tail(frameQueue)
IsPlayStep == plays' = plays + 1

\* C1: in every reachable state, whatever arguments seek and setSpeed were
\* given, the clock's progress lies in [0, 1].
C1_ProgressInUnitInterval ==
  RLe(Zero, progressRef) /\ RLe(progressRef, One)

\* C6: while Playing, a frame callback that finds a time anchor sets progress
\* to min(1, progress + dt * speed / BASE_DURATION_MS) with dt the time since
\* the anchor; if that reaches 1 the clock stops playing, clears the anchor
\* and requests no further frame; otherwise it keeps playing, moves the
\* anchor to this frame and requests the next one.
C6_TickAdvance ==
  [][ (IsTickStep /\ playingRef /\ lastFrameRef > 0) =>
        LET dt == frameNow - lastFrameRef
            sum == RAdd(progressRef,
                        R(dt * speedRef[1], BASE_DURATION_MS * speedRef[2]))
            expected == IF RLe(One, sum) THEN One ELSE sum
        IN  /\ progressRef' = expected
            /\ IF expected = One
               THEN /\ ~playingRef'
                    /\ lastFrameRef' = 0
                    /\ rafCallbacks' = rafCallbacks
                    /\ rafRef' = rafRef
               ELSE /\ playingRef'
                    /\ lastFrameRef' = frameNow
                    /\ rafRef' \in rafCallbacks' ]_vars

\* C6 witness: a callback advanced progress to the end after a seek while
\* Playing, and the clock stopped there.
C6_Witness ==
  /\ seekHist.active /\ seekHist.advanced
  /\ seekHist.p # One
  /\ progressRef = One
  /\ ~playingRef
  /\ lastFrameRef = 0

C8_SeekNoJump ==
  /\ [][ (IsTickStep /\ lastOp.op \in {"play", "seek"}) =>
           /\ progressRef' = progressRef
           /\ playingRef => lastFrameRef' = frameNow ]_vars
  /\ [](seekHist.active =>
          RLe(RAbs(RSub(progressRef, seekHist.p)),
              RMul(R(wallClock - seekHist.at, BASE_DURATION_MS), RAbs(speedRef))))

\* C8 witness: progress advanced after a seek while Playing, over less time
\* than has passed since the frame before the seek.
C8_Witness ==
  /\ seekHist.active /\ seekHist.advanced
  /\ progressRef # seekHist.p
  /\ seekHist.at > 0
  /\ RLt(progressRef, One)

\* C9: after pause() (or reset()) and until play() is called, no frame
\* callback changes progress or the playing flag, a callback requested before
\* the pause included.
C9_PausedTicksInert ==
  [][ (IsTickStep /\ pausedSince) =>
        (progressRef' = progressRef /\ playingRef' = playingRef) ]_vars

\* C9 witness: a callback requested before the pause fired after it.
C9_Witness ==
  /\ pausedSince
  /\ lastOp.op = "tick"
  /\ RLt(Zero, progressRef)

\* C10: play() at progress >= 1 sets progress to 0, play() at progress < 1
\* leaves it; either way the clock is Playing afterwards, with no time anchor
\* and a newly requested frame callback.
C10_PlayEffect ==
  [][ IsPlayStep =>
        /\ RGe(progressRef, One) => progressRef' = Zero
        /\ RLt(progressRef, One) => progressRef' = progressRef
        /\ playingRef'
        /\ lastFrameRef' = 0
        /\ rafRef' \in rafCallbacks'
        /\ rafRef' \notin rafCallbacks ]_vars

\* C10 witness: play() has just rewound a finished clock.
C10_Witness ==
  /\ lastOp.op = "play"
  /\ lastOp.arg = One
  /\ progressRef = Zero
  /\ playingRef

\* a step of seek(p), p being recorded in lastOp
IsSeekStep ==
  lastOp'.op = "seek" /\ wallClock' = wallClock /\ frameNow' = frameNow

\* C11: seek(p) sets progress to p clamped into [0, 1] (0 for p < 0, 1 for
\* p > 1) and leaves the playing flag and the speed as they were, whether the
\* clock is Playing or not.
C11_SeekEffect ==
  [][ IsSeekStep =>
        LET p == lastOp'.arg
        IN  /\ RLt(p, Zero) => progressRef' = Zero
            /\ RGt(p, One) => progressRef' = One
            /\ (RLe(Zero, p) /\ RLe(p, One)) => progressRef' = p
            /\ playingRef' = playingRef
            /\ speedRef' = speedRef ]_vars

\* C11 witness: a seek below 0 while Playing at double speed left the clock
\* Playing at progress 0.
C11_Witness ==
  /\ lastOp.op = "seek"
  /\ RLt(lastOp.arg, Zero)
  /\ progressRef = Zero
  /\ playingRef
  /\ speedRef = Num(2)

\* a step of reset()
IsResetStep ==
  lastOp'.op = "reset" /\ wallClock' = wallClock /\ frameNow' = frameNow

\* C12: reset(), from any state, leaves the clock not playing at progress 0,
\* and from then until play() is called the clock stays not playing and no
\* frame callback changes progress.
C12_ResetEffect ==
  /\ [][ IsResetStep => (~playingRef' /\ progressRef' = Zero) ]_vars
  /\ [][ (IsTickStep /\ resetSince) => progressRef' = progressRef ]_vars
  /\ [](resetSince => ~playingRef)

\* C12 witness: reset() stopped a playing clock at progress 0 and a frame
\* callback requested before it has fired since.
C12_Witness ==
  /\ resetSince
  /\ lastOp.op = "tick"
  /\ progressRef = Zero
  /\ ~playingRef
  /\ plays > 0

\* a step of setSpeed(s), s being recorded in lastOp
IsSetSpeedStep ==
  lastOp'.op = "setSpeed" /\ wallClock' = wallClock /\ frameNow' = frameNow

\* C13: setSpeed(s) stores s as the multiplier of later advances and changes
\* nothing else of the clock: progress, the playing flag, the time anchor and
\* the requested frame callbacks stay as they were.
C13_SetSpeedEffect ==
  [][ IsSetSpeedStep =>
        /\ speedRef' = lastOp'.arg
        /\ progressRef' = progressRef
        /\ playingRef' = playingRef
        /\ lastFrameRef' = lastFrameRef
        /\ rafRef' = rafRef
        /\ rafCallbacks' = rafCallbacks ]_vars

\* C13 witness: the speed was doubled while Playing with an anchor set and
\* progress under way.
C13_Witness ==
  /\ lastOp.op = "setSpeed"
  /\ speedRef = Num(2)
  /\ playingRef
  /\ lastFrameRef > 0
  /\ RLt(Zero, progressRef)
  /\ RLt(progressRef, One)

TypeOK ==
  /\ playingRef \in BOOLEAN
  /\ rafRef \in 0..rafNext

====
